---- MODULE Spec2Model ----
(***************************************************************************)
(* Taskwarrior <-> Apple Reminders synchronisation.                        *)
(*                                                                         *)
(* The model covers the persisted sync state (sync_state.py), the          *)
(* reconciliation run (sync_from_reminders.py) and the two Taskwarrior     *)
(* hooks (hooks/on_add.py, hooks/on_modify.py).  The local task store      *)
(* (Taskwarrior, reached through tasklib) and the remote agent (the Swift  *)
(* binary) are the environment.                                            *)
(***************************************************************************)
EXTENDS Integers, Sequences, FiniteSets, TLC

(* ------------------------------ bounds -------------------------------- *)

\* Task uuids Taskwarrior can hand out, reminder identifiers the remote side
\* can hand out, and reconciliation processes that can be triggered at once.
MaxTasks == 2
MaxRems == 2
MaxProcs == 2
\* Steps the two users (at Taskwarrior, at Reminders) and the outside world
\* take in one behaviour.
MaxEdits == 3

UUIDs == 1..MaxTasks
RIDs == 1..MaxRems
Procs == 1..MaxProcs

(* ------------------------------ values -------------------------------- *)

\* Modification markers are strings; a string is a sequence of characters
\* (character codes).  "" is the empty sequence.
EmptyStamp == << >>
RemStamps == { <<1, 2>>, <<2>> }

\* Python's str <= str: lexicographic, a proper prefix is smaller.
IsPrefix(a, b) ==
    /\ Len(a) <= Len(b)
    /\ \A i \in 1..Len(a) : a[i] = b[i]

StrLeq(a, b) ==
    \/ IsPrefix(a, b)
    \/ \E i \in 1..Len(a) :
          /\ i <= Len(b)
          /\ a[i] < b[i]
          /\ \A j \in 1..(i - 1) : a[j] = b[j]

Titles == {"a", "b"}
DefaultList == "Reminders"

\* The one instant of the local clock the model distinguishes, as Taskwarrior
\* prints it in a hook's JSON and as datetime.isoformat() prints it.
LocalNow == "20240101T000000Z"
\* datetime.now().isoformat() as update_last_sync stores it; 0 stands for null.
Now == 1
IsoFormat(t) == IF t = "" THEN "" ELSE "2024-01-01T00:00:00+00:00"

\* A Taskwarrior task.  st: "unborn" (uuid not handed out yet), "pending",
\* "completed", "deleted", "purged" (removed from the data files).
NoTask ==
    [st |-> "unborn", rid |-> 0, title |-> "", prio |-> "", due |-> "",
     proj |-> "", mod |-> ""]

TaskExists(t) == t.st \in {"pending", "completed", "deleted"}

\* A reminder of the remote store.  st: "unborn", "live", "gone" (deleted).
NoRem ==
    [st |-> "unborn", title |-> "", prio |-> 0, due |-> "",
     list |-> DefaultList, done |-> FALSE, mod |-> EmptyStamp]

\* One entry of the "mappings" dict; NoMap stands for an absent key.
NoMap == [uuid |-> 0, rid |-> 0, twm |-> "", rm |-> EmptyStamp]

SyncMapping(uuid, reminder_id, tw_modified, reminder_modified) ==
    [uuid |-> uuid, rid |-> reminder_id, twm |-> tw_modified,
     rm |-> reminder_modified]

\* The document {"version": 1, "mappings": {}, "last_sync": None}.
EmptyState == [mappings |-> [u \in UUIDs |-> NoMap], last_sync |-> 0]

\* The state file: missing, the JSON document SyncState writes, text that is
\* not JSON, or JSON of another shape (an object without "version" and
\* without "mappings").
MissingFile == [kind |-> "missing", mappings |-> EmptyState.mappings, last_sync |-> 0]
MalformedFile == [kind |-> "malformed", mappings |-> EmptyState.mappings, last_sync |-> 0]
ForeignFile == [kind |-> "foreign", mappings |-> EmptyState.mappings, last_sync |-> 0]
DocFile(state) == [kind |-> "doc", mappings |-> state.mappings, last_sync |-> state.last_sync]

Min(S) == CHOOSE x \in S : \A y \in S : x <= y

(* ------------------------- sync_state.py ------------------------------ *)

\* config.load_json: {} for a missing file, json.loads otherwise (raises on
\* text that is not JSON).
load_json_raises(file) == file.kind = "malformed"

\* SyncState._load
SyncState_load(file) ==
    IF file.kind = "doc"
    THEN [mappings |-> file.mappings, last_sync |-> file.last_sync]
    ELSE EmptyState

\* A lookup that never finds the entry.
get_by_reminder_id_never(state, reminder_id) == NoMap

\* SyncState.get_by_reminder_id: the first entry with that reminder_id.
get_by_reminder_id(state, reminder_id) ==
    LET hits == {u \in UUIDs : /\ state.mappings[u] # NoMap
                               /\ state.mappings[u].rid = reminder_id}
    IN IF hits = {} THEN NoMap ELSE state.mappings[Min(hits)]

\* SyncState.all_mappings, as a sequence in key order.
RECURSIVE SeqOfSet(_)
SeqOfSet(S) ==
    IF S = {} THEN << >>
    ELSE <<Min(S)>> \o SeqOfSet(S \ {Min(S)})

all_mappings(state) ==
    LET keys == SeqOfSet({u \in UUIDs : state.mappings[u] # NoMap})
    IN [i \in 1..Len(keys) |-> state.mappings[keys[i]]]

\* A world is what one step of the program reads and writes: the run's
\* in-memory SyncState (mem), the state file, the tasks and the reminders.

\* SyncState.set_mapping (with _save)
set_mapping(w, mapping) ==
    LET mem2 == [w.mem EXCEPT !.mappings[mapping.uuid] = mapping]
    IN [w EXCEPT !.mem = mem2, !.file = DocFile(mem2)]

\* SyncState.remove_mapping (with _save)
remove_mapping(w, uuid) ==
    IF w.mem.mappings[uuid] # NoMap
    THEN LET mem2 == [w.mem EXCEPT !.mappings[uuid] = NoMap]
         IN [w EXCEPT !.mem = mem2, !.file = DocFile(mem2)]
    ELSE w

\* SyncState.update_last_sync (with _save)
update_last_sync(w, now) ==
    LET mem2 == [w.mem EXCEPT !.last_sync = now]
    IN [w EXCEPT !.mem = mem2, !.file = DocFile(mem2)]

(* ------------------- the remote agent (Swift binary) ------------------- *)

\* What a call of the agent can come to: exit 0, exit non-zero, no answer
\* within the caller's timeout.
Outcomes == {"ok", "fail", "timeout"}

HasFreshRid(rems) == \E r \in RIDs : rems[r].st = "unborn"
FreshRid(rems) == Min({r \in RIDs : rems[r].st = "unborn"})

\* Due dates: Taskwarrior's format on the local side, ISO-8601 on the remote.
LocalDue == "20240305T000000Z"
RemoteDue == "2024-03-05T00:00:00Z"
AgentParseDue(d) == IF d = LocalDue THEN RemoteDue ELSE ""

\* create <json>: a new reminder with a new identifier.
AgentCreate(rems, data, stamp) ==
    [rems EXCEPT ![FreshRid(rems)] =
        [st |-> "live", title |-> data.title, prio |-> data.priority,
         due |-> AgentParseDue(data.due_date), list |-> data.list,
         done |-> FALSE, mod |-> stamp]]

\* update <json>: the fields the payload carries are set, the rest kept, and
\* the reminder's modification date moves.
AgentCanUpdate(rems, rid) == rid \in RIDs /\ rems[rid].st = "live"

AgentUpdate(rems, payload, stamp) ==
    LET r == rems[payload.identifier]
    IN [rems EXCEPT ![payload.identifier] =
          [r EXCEPT
             !.title = IF "title" \in payload.keys THEN payload.title ELSE @,
             !.prio = IF "priority" \in payload.keys THEN payload.priority ELSE @,
             !.due = IF "due_date" \in payload.keys
                     THEN AgentParseDue(payload.due_date) ELSE @,
             !.done = IF "is_completed" \in payload.keys
                      THEN payload.is_completed ELSE @,
             !.mod = stamp]]

\* delete <id>
AgentDelete(rems, rid) == [rems EXCEPT ![rid].st = "gone"]

\* export [--pending-only]: the reminders that exist (and are not completed),
\* as a JSON array.
ExportRecord(rems, r) ==
    [identifier |-> r, title |-> rems[r].title, priority |-> rems[r].prio,
     dueDate |-> rems[r].due, list |-> rems[r].list,
     isCompleted |-> rems[r].done, modificationDate |-> rems[r].mod]

AgentExport(rems, pending_only) ==
    LET ids == SeqOfSet({r \in RIDs : /\ rems[r].st = "live"
                                      /\ (pending_only => ~rems[r].done)})
    IN [i \in 1..Len(ids) |-> ExportRecord(rems, ids[i])]

(* --------------------------- hooks/on_add.py --------------------------- *)

\* map_priority_to_reminder (on_add.py and on_modify.py define the same)
map_priority_to_reminder(priority) ==
    IF priority = "H" THEN 1
    ELSE IF priority = "M" THEN 5
    ELSE IF priority = "L" THEN 9
    ELSE 0

\* create_reminder: the payload, as far as the model carries the task.
reminder_data(task) ==
    [title |-> task.title,
     list |-> IF task.proj # "" THEN task.proj ELSE DefaultList,
     priority |-> map_priority_to_reminder(task.prio),
     due_date |-> task.due]

\* update_sync_state raises on text that is not JSON (json.loads) and on a
\* JSON object without "mappings" (KeyError at line 123).
update_sync_state_raises(file) == file.kind \in {"malformed", "foreign"}

\* update_sync_state: read the file (or start from the empty document), set
\* the entry, write the file.
update_sync_state(file, uuid, reminder_id, modified) ==
    LET state == IF file.kind = "doc" THEN file ELSE MissingFile
    IN [kind |-> "doc",
        mappings |-> [state.mappings EXCEPT ![uuid] =
                        SyncMapping(uuid, reminder_id, modified, EmptyStamp)],
        last_sync |-> state.last_sync]

\* main without the test of line 138.
on_add_main_no_skip(file, rems, task, uuid, o, stamp) ==
    IF o # "ok" \/ ~HasFreshRid(rems)
    THEN [file |-> file, rems |-> rems, task |-> task,
          crashed |-> FALSE, called |-> TRUE]
    ELSE LET reminder_id == FreshRid(rems)
             rems2 == AgentCreate(rems, reminder_data(task), stamp)
         IN IF update_sync_state_raises(file)
            THEN [file |-> file, rems |-> rems2, task |-> task,
                  crashed |-> TRUE, called |-> TRUE]
            ELSE [file |-> update_sync_state(file, uuid, reminder_id, task.mod),
                  rems |-> rems2,
                  task |-> [task EXCEPT !.rid = reminder_id],
                  crashed |-> FALSE, called |-> TRUE]

\* main.  The result: the file and reminders afterwards, the task printed,
\* whether the hook died of an uncaught exception, whether it called the agent.
on_add_main(file, rems, task, uuid, o, stamp) ==
    IF task.rid # 0
    THEN [file |-> file, rems |-> rems, task |-> task,
          crashed |-> FALSE, called |-> FALSE]
    ELSE IF o # "ok"
    THEN [file |-> file, rems |-> rems, task |-> task,
          crashed |-> FALSE, called |-> TRUE]
    ELSE LET reminder_id == FreshRid(rems)
             rems2 == AgentCreate(rems, reminder_data(task), stamp)
         IN IF update_sync_state_raises(file)
            THEN [file |-> file, rems |-> rems2, task |-> task,
                  crashed |-> TRUE, called |-> TRUE]
            ELSE [file |-> update_sync_state(file, uuid, reminder_id, task.mod),
                  rems |-> rems2,
                  task |-> [task EXCEPT !.rid = reminder_id],
                  crashed |-> FALSE, called |-> TRUE]

(* ------------------------- hooks/on_modify.py -------------------------- *)

\* get_reminder_id
get_reminder_id(file, uuid) ==
    IF file.kind # "doc" THEN 0 ELSE file.mappings[uuid].rid

\* update_reminder: the payload.  keys are the fields present besides the
\* identifier; a field that is not present is left at its zero.
NoPayload ==
    [identifier |-> 0, keys |-> {}, title |-> "", priority |-> 0,
     due_date |-> "", is_completed |-> FALSE]

\* update_data with the title put in whether it changed or not.
update_data_with_title(reminder_id, task, original) ==
    LET done == task.st = "completed"
        was == original.st = "completed"
    IN [identifier |-> reminder_id,
        keys |-> {"title"}
                 \cup (IF task.prio # original.prio THEN {"priority"} ELSE {})
                 \cup (IF task.due # original.due THEN {"due_date"} ELSE {})
                 \cup (IF done # was THEN {"is_completed"} ELSE {}),
        title |-> task.title,
        priority |-> IF task.prio # original.prio
                     THEN map_priority_to_reminder(task.prio) ELSE 0,
        due_date |-> IF task.due # original.due THEN task.due ELSE "",
        is_completed |-> done /\ ~was]

update_data(reminder_id, task, original) ==
    LET done == task.st = "completed"
        was == original.st = "completed"
    IN [identifier |-> reminder_id,
        keys |-> (IF task.title # original.title THEN {"title"} ELSE {})
                 \cup (IF task.prio # original.prio THEN {"priority"} ELSE {})
                 \cup (IF task.due # original.due THEN {"due_date"} ELSE {})
                 \cup (IF done # was THEN {"is_completed"} ELSE {}),
        title |-> IF task.title # original.title THEN task.title ELSE "",
        priority |-> IF task.prio # original.prio
                     THEN map_priority_to_reminder(task.prio) ELSE 0,
        due_date |-> IF task.due # original.due THEN task.due ELSE "",
        is_completed |-> done /\ ~was]

\* remove_from_sync_state
remove_from_sync_state(file, uuid) ==
    IF file.kind = "doc" /\ file.mappings[uuid] # NoMap
    THEN [file EXCEPT !.mappings[uuid] = NoMap]
    ELSE file

\* main with the mapping removed only when the agent's delete succeeded.
on_modify_main_if_deleted(file, rems, original, modified, uuid, o, stamp) ==
    LET fromFile == modified.rid = 0
        reminder_id == IF fromFile THEN get_reminder_id(file, uuid) ELSE modified.rid
        quiet == [file |-> file, rems |-> rems, crashed |-> FALSE,
                  called |-> FALSE, payload |-> NoPayload]
    IN IF fromFile /\ load_json_raises(file)
       THEN [quiet EXCEPT !.crashed = TRUE]
       ELSE IF reminder_id = 0
       THEN quiet
       ELSE IF modified.st = "deleted"
       THEN LET rems2 == IF o = "ok" /\ AgentCanUpdate(rems, reminder_id)
                         THEN AgentDelete(rems, reminder_id) ELSE rems
            IN IF load_json_raises(file)
               THEN [quiet EXCEPT !.rems = rems2, !.crashed = TRUE, !.called = TRUE]
               ELSE [quiet EXCEPT !.rems = rems2, !.called = TRUE,
                                  !.file = IF o = "ok"
                                           THEN remove_from_sync_state(file, uuid)
                                           ELSE file]
       ELSE LET payload == update_data(reminder_id, modified, original)
            IN IF payload.keys = {}
               THEN quiet
               ELSE [quiet EXCEPT
                       !.rems = IF o = "ok" /\ AgentCanUpdate(rems, reminder_id)
                                THEN AgentUpdate(rems, payload, stamp) ELSE rems,
                       !.called = TRUE,
                       !.payload = payload]

\* main.  payload is what went to the agent's update (NoPayload when update
\* was not called).
on_modify_main(file, rems, original, modified, uuid, o, stamp) ==
    LET fromFile == modified.rid = 0
        reminder_id == IF fromFile THEN get_reminder_id(file, uuid) ELSE modified.rid
        quiet == [file |-> file, rems |-> rems, crashed |-> FALSE,
                  called |-> FALSE, payload |-> NoPayload]
    IN IF fromFile /\ load_json_raises(file)
       THEN [quiet EXCEPT !.crashed = TRUE]
       ELSE IF reminder_id = 0
       THEN quiet
       ELSE IF modified.st = "deleted"
       THEN LET rems2 == IF o = "ok" /\ AgentCanUpdate(rems, reminder_id)
                         THEN AgentDelete(rems, reminder_id) ELSE rems
            IN IF load_json_raises(file)
               THEN [quiet EXCEPT !.rems = rems2, !.crashed = TRUE, !.called = TRUE]
               ELSE [quiet EXCEPT !.rems = rems2, !.called = TRUE,
                                  !.file = remove_from_sync_state(file, uuid)]
       ELSE LET payload == update_data(reminder_id, modified, original)
            IN IF payload.keys = {}
               THEN quiet
               ELSE [quiet EXCEPT
                       !.rems = IF o = "ok" /\ AgentCanUpdate(rems, reminder_id)
                                THEN AgentUpdate(rems, payload, stamp) ELSE rems,
                       !.called = TRUE,
                       !.payload = payload]

(* ----------------------- sync_from_reminders.py ------------------------ *)

\* A mapping of priorities that knows no priority.
map_priority_from_reminder_none(priority) == ""

\* map_priority_from_reminder
map_priority_from_reminder(priority) ==
    IF priority = 1 THEN "H"
    ELSE IF priority = 5 THEN "M"
    ELSE IF priority = 9 THEN "L"
    ELSE ""

\* parse_date, followed by tasklib's serialisation of the datetime.
parse_date(iso_string) == IF iso_string = RemoteDue THEN LocalDue ELSE ""

\* update_task_from_reminder: the task's fields as set on the Task object.
update_task_from_reminder(task, reminder) ==
    [task EXCEPT
       !.title = reminder.title,
       !.proj = IF reminder.list = DefaultList THEN ""
                ELSE IF reminder.list # "" THEN reminder.list ELSE @,
       !.due = parse_date(reminder.dueDate),
       !.prio = map_priority_from_reminder(reminder.priority),
       !.st = IF reminder.isCompleted /\ @ # "completed" THEN "completed"
              ELSE IF ~reminder.isCompleted /\ @ = "completed" THEN "pending"
              ELSE @]

HasFreshUuid(tasks) == \E u \in UUIDs : tasks[u].st = "unborn"
FreshUuid(tasks) == Min({u \in UUIDs : tasks[u].st = "unborn"})

\* A comparison that lets an equal marker through.
not_newer_strict(reminder_modified, mapping) ==
    StrLeq(reminder_modified, mapping.rm) /\ reminder_modified # mapping.rm

\* Line 80: the reminder has not changed since the last sync.
not_newer(reminder_modified, mapping) ==
    StrLeq(reminder_modified, mapping.rm)

\* How sync_reminder_to_task ends: by returning, or by an exception that
\* main's per-record handler catches.
\* br names the branch taken.
Return(w, br) == [w EXCEPT !.raised = FALSE, !.br = br]
Raise(w, br) == [w EXCEPT !.raised = TRUE, !.br = br]

\* The "if mapping:" branch of sync_reminder_to_task.  tw.tasks.get of a
\* uuid Taskwarrior does not hold either comes back empty (the case line 73
\* handles) or raises DoesNotExist (the case line 181 handles): getRaises.
\* task.save() runs Taskwarrior's on-modify hook with the task before and
\* after; task.done() refuses a deleted task.
sync_existing(w, reminder, mapping, getRaises, o, stamp) ==
    LET task == w.tasks[mapping.uuid]
        reminder_modified == reminder.modificationDate
    IN IF ~TaskExists(task)
       THEN IF getRaises THEN Raise(w, "lookup_raised")
            ELSE Return(remove_mapping(w, mapping.uuid), "unmapped")
       ELSE IF not_newer(reminder_modified, mapping)
       THEN Return(w, "not_newer")
       ELSE IF reminder.isCompleted /\ task.st = "deleted"
       THEN Raise(w, "done_raised")
       ELSE LET task2 == [update_task_from_reminder(task, reminder)
                            EXCEPT !.mod = LocalNow]
                hook == on_modify_main(w.file, w.rems, task, task2,
                                       mapping.uuid, o, stamp)
                w2 == [w EXCEPT !.tasks[mapping.uuid] = task2,
                                !.file = hook.file, !.rems = hook.rems]
                mapping2 == [mapping EXCEPT !.rm = reminder_modified,
                                            !.twm = IsoFormat(task2.mod)]
            IN IF hook.crashed THEN Raise(w, "save_raised")
               ELSE Return(set_mapping(w2, mapping2), "updated")

\* sync_new without the test of line 99.
sync_new_no_skip(w, reminder, o, stamp) ==
    IF ~HasFreshUuid(w.tasks)
    THEN Raise(w, "save_raised")
    ELSE LET uuid == FreshUuid(w.tasks)
             task == [st |-> "pending",
                      rid |-> reminder.identifier,
                      title |-> reminder.title,
                      prio |-> map_priority_from_reminder(reminder.priority),
                      due |-> parse_date(reminder.dueDate),
                      proj |-> IF reminder.list # DefaultList
                               THEN reminder.list ELSE "",
                      mod |-> LocalNow]
             hook == on_add_main(w.file, w.rems, task, uuid, o, stamp)
             w2 == [w EXCEPT !.tasks[uuid] = hook.task,
                             !.file = hook.file, !.rems = hook.rems]
         IN Return(set_mapping(w2,
                SyncMapping(uuid, reminder.identifier,
                            IsoFormat(hook.task.mod),
                            reminder.modificationDate)),
                   "created")

\* The "else:" branch: a reminder with no mapping.  task.save() hands out the
\* uuid and runs Taskwarrior's on-add hook on the new task.
sync_new(w, reminder, o, stamp) ==
    IF reminder.isCompleted
    THEN Return(w, "completed_unknown")
    ELSE IF ~HasFreshUuid(w.tasks)
    THEN Raise(w, "save_raised")
    ELSE LET uuid == FreshUuid(w.tasks)
             task == [st |-> "pending",
                      rid |-> reminder.identifier,
                      title |-> reminder.title,
                      prio |-> map_priority_from_reminder(reminder.priority),
                      due |-> parse_date(reminder.dueDate),
                      proj |-> IF reminder.list # DefaultList
                               THEN reminder.list ELSE "",
                      mod |-> LocalNow]
             hook == on_add_main(w.file, w.rems, task, uuid, o, stamp)
             w2 == [w EXCEPT !.tasks[uuid] = hook.task,
                             !.file = hook.file, !.rems = hook.rems]
         IN Return(set_mapping(w2,
                SyncMapping(uuid, reminder.identifier,
                            IsoFormat(hook.task.mod),
                            reminder.modificationDate)),
                   "created")

\* sync_reminder_to_task
sync_reminder_to_task(w, reminder, getRaises, o, stamp) ==
    LET mapping == get_by_reminder_id(w.mem, reminder.identifier)
    IN IF mapping # NoMap
       THEN sync_existing(w, reminder, mapping, getRaises, o, stamp)
       ELSE sync_new(w, reminder, o, stamp)

\* check_deleted_reminders: the set comprehension of line 171 ...
current_reminder_ids(reminders) ==
    {reminders[i].identifier : i \in 1..Len(reminders)}

\* ... and one turn of its loop.  task.delete() runs the on-modify hook; a
\* failure of the lookup or of the delete is swallowed (lines 181-182).
check_deleted_one(w, mapping, reminders, o, stamp) ==
    IF mapping.rid \in current_reminder_ids(reminders)
    THEN [w EXCEPT !.br = "kept"]
    ELSE LET task == w.tasks[mapping.uuid]
             task2 == [task EXCEPT !.st = "deleted", !.mod = LocalNow]
             hook == on_modify_main(w.file, w.rems, task, task2,
                                    mapping.uuid, o, stamp)
             w2 == IF TaskExists(task) /\ task.st # "deleted"
                   THEN IF hook.crashed
                        THEN [w EXCEPT !.rems = hook.rems]
                        ELSE [w EXCEPT !.tasks[mapping.uuid] = task2,
                                       !.file = hook.file, !.rems = hook.rems]
                   ELSE w
         IN [remove_mapping(w2, mapping.uuid) EXCEPT !.br = "removed"]

(* ------------------------------ state ---------------------------------- *)

VARIABLES
    file,    \* the state file sync_state.json
    tasks,   \* Taskwarrior's tasks, by uuid
    rems,    \* the remote reminders, by identifier
    lock,    \* the process holding the flock on .sync.lock, 0 when free
    run,     \* per reconciliation process: its position and its locals
    last,    \* the step taken last: which, by whom, on what, which branch
    edits,   \* how many steps the environment has taken
    prior    \* the reminders the latest fetch returned, while nobody has
             \* edited anything since, and whether the fetch before it
             \* returned the same

vars == <<file, tasks, rems, lock, run, last, edits, prior>>

\* A reconciliation process: where it is in main(), its SyncState object
\* (mem), the fetched reminders, the loop index, the mappings the sweep has
\* yet to look at.
IdleRun ==
    [pc |-> "idle", mem |-> EmptyState, snap |-> << >>, idx |-> 0,
     todo |-> << >>]

Log(act, p, uuid, rid, o, br, payload) ==
    [act |-> act, p |-> p, uuid |-> uuid, rid |-> rid, o |-> o, br |-> br,
     payload |-> payload]

World(p) ==
    [mem |-> run[p].mem, file |-> file, tasks |-> tasks, rems |-> rems,
     raised |-> FALSE, br |-> ""]

NoPrior == [known |-> FALSE, snap |-> << >>, again |-> FALSE]

Init ==
    /\ file = MissingFile
    /\ tasks = [u \in UUIDs |-> NoTask]
    /\ rems = [r \in RIDs |-> NoRem]
    /\ lock = 0
    /\ run = [p \in Procs |-> IdleRun]
    /\ last = Log("init", 0, 0, 0, "", "", NoPayload)
    /\ edits = 0
    /\ prior = NoPrior

(* Uuids are handed out from a finite pool.  The environment may use the     *)
(* pool only as far as every run under way can still create the tasks its   *)
(* reminders may ask for, so that a run never waits for a uuid.             *)
FreeUuids(ts) == Cardinality({u \in UUIDs : ts[u].st = "unborn"})
LiveRems(rs) == Cardinality({r \in RIDs : rs[r].st = "live"})

\* The reminders a run would create a task for: those its SyncState has no
\* mapping for.
Unmapped(state, rs) ==
    Cardinality({r \in RIDs : /\ rs[r].st = "live"
                              /\ get_by_reminder_id(state, r) = NoMap})

NeedOf(rp, f, rs) ==
    IF rp.pc = "locked" THEN Unmapped(SyncState_load(f), rs)
    ELSE IF rp.pc = "fetch" THEN Unmapped(rp.mem, rs)
    ELSE IF rp.pc = "sync"
    THEN Cardinality({i \in rp.idx..Len(rp.snap) :
                        get_by_reminder_id(rp.mem, rp.snap[i].identifier) = NoMap})
    ELSE 0

RECURSIVE Need(_, _, _, _)
Need(S, r, f, rs) ==
    IF S = {} THEN 0
    ELSE LET p == Min(S) IN NeedOf(r[p], f, rs) + Need(S \ {p}, r, f, rs)

Headroom(ts, f, rs, r) == FreeUuids(ts) >= Need(Procs, r, f, rs)

(* ------------------- main() of sync_from_reminders.py ------------------- *)

\* fcntl.flock(f, LOCK_EX | LOCK_NB): taken when no other open file holds it,
\* BlockingIOError otherwise.
flock_nb_always(lk) == TRUE
flock_nb(lk) == lk = 0

\* Leaving the "with open(lock_file)" block, by return or by exception,
\* closes the file, and closing it drops the lock it holds.
close_lock_file_leak(lk, p) == lk
close_lock_file(lk, p) == IF lk = p THEN 0 ELSE lk

\* fcntl.flock(f, LOCK_UN)
flock_un(lk, p) == IF lk = p THEN 0 ELSE lk

\* Lines 194-201: open the lock file and try the lock.
Start(p) ==
    /\ run[p].pc = "idle"
    /\ IF flock_nb(lock)
       THEN /\ lock' = p
            /\ run' = [run EXCEPT ![p] = [IdleRun EXCEPT !.pc = "locked"]]
            /\ last' = Log("start", p, 0, 0, "", "locked", NoPayload)
            /\ Headroom(tasks, file, rems, run')
       ELSE /\ lock' = close_lock_file(lock, p)
            /\ run' = [run EXCEPT ![p] = IdleRun]
            /\ last' = Log("start", p, 0, 0, "", "skipped", NoPayload)
    /\ UNCHANGED <<file, tasks, rems, edits, prior>>

\* Lines 203-204: SyncState() loads the file; text that is not JSON raises
\* out of main().
Load(p) ==
    /\ run[p].pc = "locked"
    /\ IF load_json_raises(file)
       THEN /\ lock' = close_lock_file(lock, p)
            /\ run' = [run EXCEPT ![p] = IdleRun]
            /\ last' = Log("load", 0, 0, 0, "", "fatal", NoPayload)
       ELSE /\ lock' = lock
            /\ run' = [run EXCEPT ![p].pc = "fetch",
                                  ![p].mem = SyncState_load(file)]
            /\ last' = Log("load", 0, 0, 0, "", "loaded", NoPayload)
    /\ UNCHANGED <<file, tasks, rems, edits, prior>>

\* What the export call can come to: exit 0 with a JSON array, exit non-zero,
\* exit 0 with output that is not JSON, no answer at all.
FetchOutcomes == {"ok", "fail", "garbage", "hang"}

\* fetch_reminders: subprocess.run without a timeout, [] on a non-zero exit,
\* json.loads of the output otherwise.
fetch_reminders(rs, pending_only, o) ==
    IF o = "ok" THEN AgentExport(rs, pending_only) ELSE << >>

\* Where main() goes once the loop over the reminders is through.
AfterLoop(rp) ==
    IF rp.idx > Len(rp.snap)
    THEN [rp EXCEPT !.pc = "sweep", !.todo = all_mappings(rp.mem)]
    ELSE rp

\* Lines 206-207.
Fetch(p, pending_only, o) ==
    /\ run[p].pc = "fetch"
    /\ CASE o = "hang" ->
              /\ lock' = lock
              /\ run' = [run EXCEPT ![p].pc = "hung"]
         [] o = "garbage" ->
              /\ lock' = close_lock_file(lock, p)
              /\ run' = [run EXCEPT ![p] = IdleRun]
         [] OTHER ->
              /\ lock' = lock
              /\ run' = [run EXCEPT ![p] =
                           AfterLoop([run[p] EXCEPT
                              !.pc = "sync",
                              !.snap = fetch_reminders(rems, pending_only, o),
                              !.idx = 1])]
    /\ prior' = IF o \in {"ok", "fail"}
                THEN LET snap == fetch_reminders(rems, pending_only, o)
                     IN [known |-> TRUE, snap |-> snap,
                         again |-> prior.known /\ prior.snap = snap]
                ELSE NoPrior
    /\ last' = Log("fetch", 0, 0, 0, o, "", NoPayload)
    /\ UNCHANGED <<file, tasks, rems, edits>>

\* A loop whose first exception ends main().
next_record_or_abort(rp, w) ==
    IF w.raised THEN IdleRun
    ELSE AfterLoop([rp EXCEPT !.mem = w.mem, !.idx = @ + 1])

\* Lines 209-213: the try/except around sync_reminder_to_task.  Returned or
\* raised, the loop goes on to the next reminder.
next_record(rp, w) ==
    AfterLoop([rp EXCEPT !.mem = w.mem, !.idx = @ + 1])

\* Lines 209-213: one turn of the loop over the reminders.
Sync(p, getRaises, o, stamp) ==
    /\ run[p].pc = "sync"
    /\ LET reminder == run[p].snap[run[p].idx]
           w == sync_reminder_to_task(World(p), reminder, getRaises, o, stamp)
       IN /\ file' = w.file
          /\ tasks' = w.tasks
          /\ rems' = w.rems
          /\ run' = [run EXCEPT ![p] = next_record(run[p], w)]
          /\ last' = Log("sync", 0, 0, reminder.identifier, "", w.br, NoPayload)
    /\ UNCHANGED <<lock, edits, prior>>

\* Line 215: one turn of the loop of check_deleted_reminders.
Sweep(p, o, stamp) ==
    /\ run[p].pc = "sweep"
    /\ run[p].todo # << >>
    /\ LET mapping == Head(run[p].todo)
           w == check_deleted_one(World(p), mapping, run[p].snap, o, stamp)
       IN /\ file' = w.file
          /\ tasks' = w.tasks
          /\ rems' = w.rems
          /\ run' = [run EXCEPT ![p].mem = w.mem, ![p].todo = Tail(@)]
          /\ last' = Log("sweep", 0, mapping.uuid, mapping.rid, "", w.br, NoPayload)
    /\ UNCHANGED <<lock, edits, prior>>

\* Lines 216-220: update_last_sync, unlock, leave the with block.
Finish(p) ==
    /\ run[p].pc = "sweep"
    /\ run[p].todo = << >>
    /\ LET w == update_last_sync(World(p), Now)
       IN file' = w.file
    /\ lock' = close_lock_file(flock_un(lock, p), p)
    /\ run' = [run EXCEPT ![p] = IdleRun]
    /\ last' = Log("finish", 0, 0, 0, "", "", NoPayload)
    /\ UNCHANGED <<tasks, rems, edits, prior>>

(* ------------------- the user at Taskwarrior (hooks) ------------------- *)

\* task add: Taskwarrior runs on-add on the new task and stores what the hook
\* prints; a hook that dies stops the command.
UserAdd(title, o, stamp) ==
    /\ HasFreshUuid(tasks)
    /\ o = "ok" => HasFreshRid(rems)
    /\ LET uuid == FreshUuid(tasks)
           task == [NoTask EXCEPT !.st = "pending", !.title = title,
                                  !.mod = LocalNow]
           hook == on_add_main(file, rems, task, uuid, o, stamp)
       IN /\ file' = hook.file
          /\ rems' = hook.rems
          /\ tasks' = IF hook.crashed THEN tasks
                      ELSE [tasks EXCEPT ![uuid] = hook.task]
          /\ last' = Log("on_add", 0, uuid, hook.task.rid, o,
                         IF hook.crashed THEN "crashed" ELSE "done", NoPayload)
    /\ Headroom(tasks', file', rems', run)
    /\ UNCHANGED <<lock, run>>

\* task modify / task done: on-modify gets the task before and after.
UserModify(u, modified, o, stamp) ==
    /\ tasks[u].st \in {"pending", "completed"}
    /\ modified.st \in {"pending", "completed"}
    /\ modified # tasks[u]
    /\ LET hook == on_modify_main(file, rems, tasks[u], modified, u, o, stamp)
       IN /\ file' = hook.file
          /\ rems' = hook.rems
          /\ tasks' = IF hook.crashed THEN tasks
                      ELSE [tasks EXCEPT ![u] = modified]
          /\ last' = Log("on_modify", 0, u, 0, o,
                         IF hook.crashed THEN "crashed"
                         ELSE IF hook.called THEN "called" ELSE "quiet",
                         hook.payload)
    /\ UNCHANGED <<lock, run>>

\* task delete: on-modify with status deleted.
UserDelete(u, o) ==
    /\ tasks[u].st \in {"pending", "completed"}
    /\ LET modified == [tasks[u] EXCEPT !.st = "deleted"]
           hook == on_modify_main(file, rems, tasks[u], modified, u, o, EmptyStamp)
       IN /\ file' = hook.file
          /\ rems' = hook.rems
          /\ tasks' = IF hook.crashed THEN tasks
                      ELSE [tasks EXCEPT ![u] = modified]
          /\ last' = Log("on_delete", 0, u, get_reminder_id(file, u), o,
                         IF hook.crashed THEN "crashed"
                         ELSE IF hook.called THEN "called" ELSE "quiet",
                         NoPayload)
    /\ Headroom(tasks', file', rems', run)
    /\ UNCHANGED <<lock, run>>

\* task purge: a deleted task leaves the data files; no hook runs.
UserPurge(u) ==
    /\ tasks[u].st = "deleted"
    /\ tasks' = [tasks EXCEPT ![u] = [NoTask EXCEPT !.st = "purged"]]
    /\ last' = Log("purge", 0, u, 0, "", "", NoPayload)
    /\ UNCHANGED <<file, rems, lock, run>>

(* ----------------------- the user at Reminders -------------------------- *)

RemCreate(title, stamp) ==
    /\ HasFreshRid(rems)
    /\ rems' = [rems EXCEPT ![FreshRid(rems)] =
                  [NoRem EXCEPT !.st = "live", !.title = title, !.mod = stamp]]
    /\ Headroom(tasks, file, rems', run)
    /\ last' = Log("rem_create", 0, 0, FreshRid(rems), "", "", NoPayload)
    /\ UNCHANGED <<file, tasks, lock, run>>

\* A reminder created with a priority and a due date.
RemCreateWith(title, prio, due, stamp) ==
    /\ HasFreshRid(rems)
    /\ rems' = [rems EXCEPT ![FreshRid(rems)] =
                  [NoRem EXCEPT !.st = "live", !.title = title, !.prio = prio,
                                !.due = due, !.mod = stamp]]
    /\ Headroom(tasks, file, rems', run)
    /\ last' = Log("rem_create", 0, 0, FreshRid(rems), "", "", NoPayload)
    /\ UNCHANGED <<file, tasks, lock, run>>

RemEdit(r, title, stamp) ==
    /\ rems[r].st = "live"
    /\ title # rems[r].title
    /\ rems' = [rems EXCEPT ![r].title = title, ![r].mod = stamp]
    /\ last' = Log("rem_edit", 0, 0, r, "", "", NoPayload)
    /\ UNCHANGED <<file, tasks, lock, run>>

RemToggle(r, stamp) ==
    /\ rems[r].st = "live"
    /\ rems' = [rems EXCEPT ![r].done = ~@, ![r].mod = stamp]
    /\ last' = Log("rem_toggle", 0, 0, r, "", "", NoPayload)
    /\ UNCHANGED <<file, tasks, lock, run>>

RemDelete(r) ==
    /\ rems[r].st = "live"
    /\ rems' = [rems EXCEPT ![r].st = "gone"]
    /\ last' = Log("rem_delete", 0, 0, r, "", "", NoPayload)
    /\ UNCHANGED <<file, tasks, lock, run>>

\* The state file damaged from outside: its text is no longer JSON.
Corrupt ==
    /\ file.kind = "doc"
    /\ file' = MalformedFile
    /\ last' = Log("corrupt", 0, 0, 0, "", "", NoPayload)
    /\ UNCHANGED <<tasks, rems, lock, run>>

\* The state file replaced from outside by JSON of another shape.
Replace ==
    /\ file.kind = "doc"
    /\ file' = ForeignFile
    /\ last' = Log("replace", 0, 0, 0, "", "", NoPayload)
    /\ UNCHANGED <<tasks, rems, lock, run>>

(* --------------------------- specifications ----------------------------- *)

\* The edits of one task the user makes in Spec: the title and done/undone.
TitleEdits(task) ==
    {[task EXCEPT !.st = s] : s \in {"pending", "completed"}}

RunStep(p) ==
    \/ Start(p)
    \/ Load(p)
    \/ \E o \in FetchOutcomes : Fetch(p, TRUE, o)
    \/ \E g \in BOOLEAN, o \in Outcomes, s \in RemStamps : Sync(p, g, o, s)
    \/ \E o \in Outcomes, s \in RemStamps : Sweep(p, o, s)
    \/ Finish(p)

Edit == edits < MaxEdits /\ edits' = edits + 1 /\ prior' = NoPrior

LocalStep ==
    \/ \E o \in Outcomes, s \in RemStamps : UserAdd("a", o, s)
    \/ \E u \in UUIDs, o \in Outcomes, s \in RemStamps :
          \E m \in TitleEdits(tasks[u]) : UserModify(u, m, o, s)
    \/ \E u \in UUIDs, o \in Outcomes : UserDelete(u, o)
    \/ \E u \in UUIDs : UserPurge(u)

RemoteStep ==
    \/ \E s \in RemStamps : RemCreate("a", s)
    \/ \E r \in RIDs, s \in RemStamps : RemToggle(r, s)
    \/ \E r \in RIDs : RemDelete(r)

Next ==
    \/ \E p \in Procs : RunStep(p)
    \/ Edit /\ LocalStep
    \/ Edit /\ RemoteStep
    \/ Edit /\ Corrupt

Spec == Init /\ [][Next]_vars

\* The reconciliation over a full export: fetch_reminders(pending_only=False)
\* hands sync_reminder_to_task the completed reminders too.
RunStepFull(p) ==
    \/ Start(p)
    \/ Load(p)
    \/ \E b \in BOOLEAN, o \in FetchOutcomes : Fetch(p, b, o)
    \/ \E g \in BOOLEAN, o \in Outcomes, s \in RemStamps : Sync(p, g, o, s)
    \/ \E o \in Outcomes, s \in RemStamps : Sweep(p, o, s)
    \/ Finish(p)

NextFull ==
    \/ \E p \in Procs : RunStepFull(p)
    \/ Edit /\ LocalStep
    \/ Edit /\ RemoteStep
    \/ Edit /\ Corrupt

SpecFull == Init /\ [][NextFull]_vars

\* The hooks alone, under every edit of a task's fields.
Prios == {"", "H"}
Dues == {"", LocalDue}
Projects == {"", "home"}

FieldEdits(task) ==
    {[task EXCEPT !.title = t, !.prio = pr, !.due = d, !.proj = pj, !.st = s] :
        t \in Titles, pr \in Prios, d \in Dues, pj \in Projects,
        s \in {"pending", "completed"}}

NextHooks ==
    \/ Edit /\ \E t \in Titles, o \in Outcomes, s \in RemStamps : UserAdd(t, o, s)
    \/ Edit /\ \E u \in UUIDs, o \in Outcomes, s \in RemStamps :
                  \E m \in FieldEdits(tasks[u]) : UserModify(u, m, o, s)
    \/ Edit /\ \E u \in UUIDs, o \in Outcomes : UserDelete(u, o)
    \/ Edit /\ \E u \in UUIDs : UserPurge(u)

SpecHooks == Init /\ [][NextHooks]_vars

\* The runs beside the user at Reminders and a state file that gets damaged.
\* A process that is running keeps running: every enabled step of main() is
\* taken in the end, and so is every trigger of a new run.
NextLive ==
    \/ \E p \in Procs : RunStep(p)
    \/ Edit /\ RemoteStep
    \/ Edit /\ Corrupt

SpecLive == Init /\ [][NextLive]_vars /\ \A p \in Procs : WF_vars(RunStep(p))

\* The runs beside a user who adds tasks, deletes them while the agent is
\* down, and purges them, so that a run meets mappings whose task is gone.
MaxLocalEdits == 4

EditLocal == edits < MaxLocalEdits /\ edits' = edits + 1 /\ prior' = NoPrior

NextLocal ==
    \/ \E p \in Procs : RunStep(p)
    \/ EditLocal /\ UserAdd("a", "ok", <<2>>)
    \/ EditLocal /\ \E u \in UUIDs : UserDelete(u, "fail")
    \/ EditLocal /\ \E u \in UUIDs : UserPurge(u)

SpecLocal == Init /\ [][NextLocal]_vars

\* The runs beside a user who creates reminders of every priority, with and
\* without a due date, and deletes them.
RemPrios == {0, 1, 5, 9}
RemDues == {"", RemoteDue}

NextRemote ==
    \/ \E p \in Procs : RunStep(p)
    \/ Edit /\ \E pr \in RemPrios, d \in RemDues, s \in RemStamps :
                  RemCreateWith("a", pr, d, s)
    \/ Edit /\ \E r \in RIDs : RemDelete(r)

SpecRemote == Init /\ [][NextRemote]_vars

\* The runs beside a user who adds tasks and a state file that gets damaged
\* or replaced.
NextFiles ==
    \/ \E p \in Procs : RunStep(p)
    \/ Edit /\ \E o \in Outcomes, s \in RemStamps : UserAdd("a", o, s)
    \/ Edit /\ Corrupt
    \/ Edit /\ Replace

SpecFiles == Init /\ [][NextFiles]_vars

\* The runs beside a user who adds tasks and changes their title, project
\* and priority, with an agent that answers every call; nobody edits the
\* reminders but the hooks.
EchoEdits(task) ==
    {[task EXCEPT !.title = t, !.prio = pr, !.proj = pj] :
        t \in Titles, pr \in Prios, pj \in Projects}

NextEcho ==
    \/ \E p \in Procs : RunStep(p)
    \/ Edit /\ \E s \in RemStamps : UserAdd("a", "ok", s)
    \/ Edit /\ \E u \in UUIDs, s \in RemStamps :
                  \E m \in EchoEdits(tasks[u]) : UserModify(u, m, "ok", s)

SpecEcho == Init /\ [][NextEcho]_vars

(* ------------------------------- claims --------------------------------- *)

Present(mappings) == {u \in UUIDs : mappings[u] # NoMap}

\* C1 (bijection): in every state of the persisted mapping table, each entry
\* is filed under its own uuid, so no two entries share a uuid, and no two
\* entries share a reminder_id.
C1_Bijection ==
    file.kind = "doc" =>
        /\ \A u \in Present(file.mappings) : file.mappings[u].uuid = u
        /\ \A u, v \in Present(file.mappings) :
              file.mappings[u].rid = file.mappings[v].rid => u = v

\* A table with two entries, one written by on_add (no reminder_modified yet)
\* and one written by the reconciliation run.
C1_Witness ==
    /\ file.kind = "doc"
    /\ \E u, v \in Present(file.mappings) :
          /\ u # v
          /\ file.mappings[u].rm = EmptyStamp
          /\ file.mappings[v].rm # EmptyStamp

\* The reminder a Sync step of p is about to process, and its mapping in
\* the run's SyncState.
Current(p) == run[p].snap[run[p].idx]
CurrentMapping(p) == get_by_reminder_id(run[p].mem, Current(p).identifier)

\* p takes a Sync step.
SyncStep(p) ==
    /\ run[p].pc = "sync"
    /\ last'.act = "sync"
    /\ run'[p].idx = run[p].idx + 1

\* C2 (monotonic remote-apply): a Sync step on a reminder that has a mapping
\* and whose task exists, with a modification marker lexically <= the
\* mapping's reminder_modified (equal included), changes neither the tasks
\* nor the mapping table, in memory or on file, nor the reminders.
C2_MonotonicApply ==
    [][\A p \in Procs :
          ( /\ SyncStep(p)
            /\ CurrentMapping(p) # NoMap
            /\ TaskExists(tasks[CurrentMapping(p).uuid])
            /\ StrLeq(Current(p).modificationDate, CurrentMapping(p).rm) )
          => /\ tasks' = tasks
             /\ rems' = rems
             /\ file' = file
             /\ run'[p].mem = run[p].mem]_vars

\* A Sync step has just passed over a reminder whose marker "12" is below the
\* stored "2", with the reminder's completion flag unlike the task's status.
C2_Witness ==
    /\ last.act = "sync"
    /\ last.br = "not_newer"
    /\ \E p \in Procs :
          /\ run[p].pc \in {"sync", "sweep"}
          /\ run[p].idx > 1
          /\ LET r == run[p].snap[run[p].idx - 1]
                 m == get_by_reminder_id(run[p].mem, r.identifier)
             IN /\ m # NoMap
                /\ r.modificationDate = <<1, 2>>
                /\ m.rm = <<2>>
                /\ TaskExists(tasks[m.uuid])

\* C3 (idempotent reconciliation): when a run reconciles the reminders the
\* run before it reconciled, and nothing was edited on either side since that
\* earlier fetch, its Sync and Sweep steps create, update and delete no task.
C3_Idempotent ==
    [][(prior.again /\ last'.act \in {"sync", "sweep"}) => tasks' = tasks]_vars

\* p takes a Sweep step, on the mapping at the head of its list.
SweepStep(p) ==
    /\ run[p].pc = "sweep"
    /\ run[p].todo # << >>
    /\ last'.act = "sweep"
    /\ run'[p].todo = Tail(run[p].todo)

\* C4 (deletion propagation): a Sweep step on a mapping whose reminder_id is
\* not among the fetched reminders removes the mapping, in memory and on
\* file, whether or not its task exists, and marks the task deleted when it
\* exists and is not deleted yet; a Sweep step on a mapping whose reminder_id
\* was fetched changes nothing.
C4_DeletionPropagation ==
    [][\A p \in Procs :
          SweepStep(p) =>
             LET m == Head(run[p].todo)
             IN IF m.rid \in current_reminder_ids(run[p].snap)
                THEN /\ run'[p].mem = run[p].mem
                     /\ file' = file
                     /\ tasks' = tasks
                ELSE /\ run'[p].mem.mappings[m.uuid] = NoMap
                     /\ file'.kind = "doc"
                     /\ file'.mappings[m.uuid] = NoMap
                     /\ (TaskExists(tasks[m.uuid]) /\ tasks[m.uuid].st # "deleted")
                           => tasks'[m.uuid].st = "deleted"]_vars

\* C5 (completed-unknown skip): a Sync step on a reminder that has no mapping
\* and is completed creates no task and no mapping: tasks, the run's
\* mappings, the state file and the reminders stay as they were.
C5_CompletedUnknownSkip ==
    [][\A p \in Procs :
          (SyncStep(p) /\ CurrentMapping(p) = NoMap /\ Current(p).isCompleted)
             => /\ tasks' = tasks
                /\ run'[p].mem = run[p].mem
                /\ file' = file
                /\ rems' = rems]_vars

\* A run has just passed over a completed reminder it had no mapping for,
\* with a uuid free for a task.
C5_Witness ==
    /\ last.act = "sync"
    /\ last.br = "completed_unknown"
    /\ HasFreshUuid(tasks)
    /\ \E p \in Procs :
          /\ run[p].pc \in {"sync", "sweep"}
          /\ run[p].idx > 1
          /\ run[p].snap[run[p].idx - 1].isCompleted
          /\ get_by_reminder_id(run[p].mem,
                                run[p].snap[run[p].idx - 1].identifier) = NoMap

\* The fields of a task whose change the reminder is to follow.
Changed(old, new) ==
    (IF new.title # old.title THEN {"title"} ELSE {})
    \cup (IF new.prio # old.prio THEN {"priority"} ELSE {})
    \cup (IF new.due # old.due THEN {"due_date"} ELSE {})
    \cup (IF (new.st = "completed") # (old.st = "completed")
          THEN {"is_completed"} ELSE {})

\* The user modifies task u, which carries its reminder's id, and the hook
\* lets the change through.
ModifyStep(u) ==
    /\ last'.act = "on_modify"
    /\ last'.uuid = u
    /\ last'.br # "crashed"
    /\ tasks[u].rid # 0

\* C6 (minimal-diff update): when the user modifies a task that has a
\* reminder, the payload of the agent's update holds the reminder's id and
\* exactly the fields among title, priority, due date and completion whose
\* value changed (completion only when the task became or stopped being
\* completed); a change of the due date alone gives the due date alone, and
\* when none of the four changed the agent is not called and the reminders
\* stay as they were.
C6_MinimalDiff ==
    [][\A u \in UUIDs :
          ModifyStep(u) =>
             LET diff == Changed(tasks[u], tasks'[u])
             IN /\ last'.payload.keys = diff
                /\ diff # {} => /\ last'.br = "called"
                                /\ last'.payload.identifier = tasks[u].rid
                /\ diff = {} => /\ last'.br = "quiet"
                                /\ last'.payload = NoPayload
                                /\ rems' = rems
                /\ tasks'[u] = [tasks[u] EXCEPT !.due = tasks'[u].due]
                      => last'.payload.keys \subseteq {"due_date"}]_vars

\* The user has just changed the due date of a task and nothing else, and
\* the payload held the due date only.
C6_Witness ==
    /\ last.act = "on_modify"
    /\ last.br = "called"
    /\ last.payload.keys = {"due_date"}
    /\ last.payload.due_date = LocalDue
    /\ last.payload.identifier = tasks[last.uuid].rid
    /\ tasks[last.uuid].due = LocalDue

\* The user deletes task u while the state file holds a mapping for it.
DeleteStep(u) ==
    /\ last'.act = "on_delete"
    /\ last'.uuid = u
    /\ file.kind = "doc"
    /\ file.mappings[u] # NoMap

\* C7 (unconditional cleanup on local delete): when the user deletes a task
\* that has a mapping in the state file, the file has no mapping for it
\* afterwards, whether the agent's delete succeeded, failed or timed out, and
\* every other mapping of the file is as it was.
C7_UnconditionalCleanup ==
    [][\A u \in UUIDs :
          DeleteStep(u) =>
             /\ file'.kind = "doc"
             /\ file'.mappings[u] = NoMap
             /\ \A v \in UUIDs \ {u} : file'.mappings[v] = file.mappings[v]
             /\ file'.last_sync = file.last_sync]_vars

\* A delete whose call of the agent timed out: the reminder is still there,
\* the mapping is gone, and the file still holds the mapping of another task.
C7_Witness ==
    /\ last.act = "on_delete"
    /\ last.o = "timeout"
    /\ last.br = "called"
    /\ last.rid # 0
    /\ rems[last.rid].st = "live"
    /\ file.kind = "doc"
    /\ file.mappings[last.uuid] = NoMap
    /\ Present(file.mappings) # {}

\* The runs between taking the lock and giving it up.
Running == {p \in Procs : run[p].pc # "idle"}

\* C8 (run mutual exclusion): at no time are two runs between taking the lock
\* and giving it up, and the one that is holds the lock; a run that finds the
\* lock taken ends at once: it fetches nothing and changes neither the state
\* file nor the tasks nor the reminders.
C8_MutualExclusion ==
    /\ [](/\ Cardinality(Running) <= 1
          /\ \A p \in Running : lock = p)
    /\ [][(last'.act = "start" /\ last'.br = "skipped")
             => /\ run' = run
                /\ lock' = lock
                /\ file' = file
                /\ tasks' = tasks
                /\ rems' = rems]_vars

\* A run was refused the lock while another run was in its loop.
C8_Witness ==
    /\ last.act = "start"
    /\ last.br = "skipped"
    /\ \E p \in Procs :
          /\ lock = p
          /\ last.p # p
          /\ run[p].pc \in {"sync", "sweep"}
          /\ run[last.p].pc = "idle"

\* C9 (no stale lock): a run that is not under way never holds the lock,
\* however it ended (to the end of main(), or by the exception of an
\* unreadable state file or of an unreadable export), and a run that holds
\* the lock gives it up in the end unless it is waiting for the agent's
\* export; once given up the lock is free for the next run.
C9_NoStaleLock ==
    /\ [](\A p \in Procs : run[p].pc = "idle" => lock # p)
    /\ (lock # 0) ~> (lock = 0 \/ \E p \in Procs : lock = p /\ run[p].pc = "hung")

\* A run has just ended on an unreadable state file, and the lock is free.
C9_Witness ==
    /\ last.act = "load"
    /\ last.br = "fatal"
    /\ file.kind = "malformed"
    /\ lock = 0
    /\ Running = {}

\* C10 (bounded remote calls): no call of the agent holds a run up for ever:
\* every run that has taken the lock comes to its end and gives the lock up.
C10_BoundedCalls ==
    \A p \in Procs : (lock = p) ~> (run[p].pc = "idle" /\ lock # p)

\* The branches of sync_reminder_to_task that end in an exception.
Raised == {"lookup_raised", "done_raised", "save_raised"}

\* C11 (partial-failure isolation): when sync_reminder_to_task raises on a
\* reminder, the run keeps the lock and the fetched reminders, moves on to
\* the next reminder (to the sweep over all its mappings after the last
\* one), and keeps the mappings it holds and has written.  From there on the
\* run always has a step to take, each step takes it one reminder or one
\* mapping further, and the only way out of main() is past the sweep, by the
\* step that writes last_sync into the state file.
C11_PartialFailureIsolation ==
    /\ [][\A p \in Procs :
             (SyncStep(p) /\ last'.br \in Raised) =>
                /\ lock' = p
                /\ run'[p].snap = run[p].snap
                /\ run'[p].pc = IF run'[p].idx > Len(run[p].snap)
                                THEN "sweep" ELSE "sync"
                /\ run'[p].pc = "sweep" => run'[p].todo = all_mappings(run[p].mem)
                /\ run'[p].mem = run[p].mem
                /\ file' = file]_vars
    /\ [][\A p \in Procs :
             (run[p].pc \in {"sync", "sweep"} /\ run'[p] # run[p]) =>
                CASE run[p].pc = "sync" -> run'[p].idx = run[p].idx + 1
                  [] run[p].pc = "sweep" /\ run[p].todo # << >> ->
                        /\ run'[p].pc = "sweep"
                        /\ run'[p].todo = Tail(run[p].todo)
                  [] OTHER ->
                        /\ last'.act = "finish"
                        /\ run'[p] = IdleRun
                        /\ lock' = 0
                        /\ file'.kind = "doc"
                        /\ file'.last_sync = Now]_vars
    /\ [](\A p \in Procs : run[p].pc \in {"sync", "sweep"} => ENABLED RunStep(p))

\* The first of two fetched reminders has just raised (its mapping's task is
\* gone from Taskwarrior), the second is still to come, and the run holds a
\* mapping it wrote before.
C11_Witness ==
    /\ last.act = "sync"
    /\ last.br \in Raised
    /\ \E p \in Procs :
          /\ lock = p
          /\ run[p].pc = "sync"
          /\ run[p].idx = 2
          /\ Len(run[p].snap) = 2
          /\ Present(run[p].mem.mappings) # {}

\* The scale of the remote priorities: 1 high, 5 medium, 9 low, 0 none.
PriorityOf(n) ==
    CASE n = 1 -> "H" [] n = 5 -> "M" [] n = 9 -> "L" [] n = 0 -> ""

\* C12 (create from unmapped active record): a Sync step on a reminder that
\* has no mapping and is not completed creates exactly one task, with the
\* reminder's title, its priority on the scale H/M/L/none, its due date and
\* its identifier, and adds exactly one mapping, from the new task's uuid to
\* the reminder's identifier, whose reminder_modified is the reminder's
\* modification date and whose tw_modified is the new task's modification
\* time; every other task and mapping stays as it was.
C12_CreateFromUnmapped ==
    [][\A p \in Procs :
          (/\ SyncStep(p)
           /\ CurrentMapping(p) = NoMap
           /\ ~Current(p).isCompleted
           /\ Current(p).priority \in RemPrios
           /\ HasFreshUuid(tasks)) =>
             LET r == Current(p)
                 new == {u \in UUIDs : tasks'[u] # tasks[u]}
             IN /\ Cardinality(new) = 1
                /\ \A u \in new :
                      /\ ~TaskExists(tasks[u])
                      /\ tasks'[u].st = "pending"
                      /\ tasks'[u].title = r.title
                      /\ tasks'[u].prio = PriorityOf(r.priority)
                      /\ (r.dueDate = RemoteDue) <=> (tasks'[u].due = LocalDue)
                      /\ (r.dueDate = "") <=> (tasks'[u].due = "")
                      /\ tasks'[u].rid = r.identifier
                      /\ run'[p].mem.mappings =
                            [run[p].mem.mappings EXCEPT ![u] =
                                SyncMapping(u, r.identifier,
                                            IsoFormat(tasks'[u].mod),
                                            r.modificationDate)]
                      /\ run[p].mem.mappings[u] = NoMap
                /\ file' = DocFile(run'[p].mem)]_vars

\* A run has just created a task of high priority, due on the reminder's
\* date, for a reminder it had no mapping for, and has written the mapping.
C12_Witness ==
    /\ last.act = "sync"
    /\ last.br = "created"
    /\ rems[last.rid].prio = 1
    /\ rems[last.rid].due = RemoteDue
    /\ file.kind = "doc"
    /\ \E u \in Present(file.mappings) :
          /\ file.mappings[u].rid = last.rid
          /\ file.mappings[u].rm = rems[last.rid].mod
          /\ tasks[u].prio = "H"
          /\ tasks[u].due = LocalDue
          /\ tasks[u].rid = last.rid

\* C13 (echo suppression on local create): run on a task that carries a
\* reminder_id, the on-add hook calls no agent, leaves the state file and the
\* reminders as they are and prints the task as it got it, whatever the
\* agent would have answered; so the Sync step that creates a task for a
\* reminder leaves the reminders as they were.
C13_EchoSuppression ==
    /\ [](\A u \in UUIDs, o \in Outcomes, s \in RemStamps :
             tasks[u].rid # 0 =>
                on_add_main(file, rems, tasks[u], u, o, s) =
                   [file |-> file, rems |-> rems, task |-> tasks[u],
                    crashed |-> FALSE, called |-> FALSE])
    /\ [][(last'.act = "sync" /\ last'.br = "created") => rems' = rems]_vars

\* A run has just created a task for the one reminder there is, the task
\* carries the reminder's id, and the agent had an identifier left to give.
C13_Witness ==
    /\ last.act = "sync"
    /\ last.br = "created"
    /\ LiveRems(rems) = 1
    /\ HasFreshRid(rems)
    /\ \E u \in UUIDs : tasks[u].st = "pending" /\ tasks[u].rid = last.rid

\* C14 (fetch failure is not mass deletion): in a run whose export exited
\* non-zero, the sweep that follows removes no mapping, from the run's
\* SyncState or from the state file, and marks no task deleted.
C14_FetchFailureNoDeletion ==
    [][(last.act = "fetch" /\ last.o = "fail" /\ last'.act = "sweep") =>
          /\ \A p \in Procs : Present(run[p].mem.mappings)
                                 \subseteq Present(run'[p].mem.mappings)
          /\ file' = file
          /\ \A u \in UUIDs : tasks'[u].st = "deleted" => tasks[u].st = "deleted"]_vars

\* p takes its Load step.
LoadStep(p) ==
    /\ run[p].pc = "locked"
    /\ last'.act = "load"
    /\ run'[p] # run[p]

\* C15 (state-file loading): SyncState() on a missing state file gives the
\* empty table; on a state file that is there but is not the document
\* {version, mappings, last_sync} it ends the run with an error: the run
\* loads nothing, goes no further and leaves the file as it is.
C15_StateFileLoading ==
    [][\A p \in Procs :
          LoadStep(p) =>
             /\ file.kind = "missing" =>
                   /\ last'.br = "loaded"
                   /\ run'[p].mem = EmptyState
             /\ file.kind \in {"malformed", "foreign"} =>
                   /\ last'.br = "fatal"
                   /\ run'[p] = IdleRun
                   /\ lock' = 0
             /\ file' = file]_vars

\* C16 (no lost updates of the state file): a step of a run changes, in the
\* state file, only the entries it changes in its own table, so an entry a
\* hook added or removed while the run was under way is still added or
\* removed after the run's set_mapping, remove_mapping and update_last_sync;
\* and a hook changes only the entry of its own task.
C16_NoLostUpdates ==
    /\ [][\A p \in Procs :
             (lock = p /\ file.kind = "doc" /\ last'.act \in {"sync", "sweep"}) =>
                /\ file'.kind = "doc"
                /\ \A u \in UUIDs :
                      run'[p].mem.mappings[u] = run[p].mem.mappings[u]
                         => file'.mappings[u] = file.mappings[u]]_vars
    /\ [][(file.kind = "doc" /\ last'.act = "finish") =>
             /\ file'.kind = "doc"
             /\ file'.mappings = file.mappings]_vars
    /\ [][(file.kind = "doc" /\ last'.act \in {"on_add", "on_modify", "on_delete"}) =>
             /\ file'.kind = "doc"
             /\ \A u \in UUIDs \ {last'.uuid} :
                   file'.mappings[u] = file.mappings[u]]_vars

\* C17 (fingerprints on local create): when the user adds a task and the
\* agent creates the reminder, the state file gets a mapping for the task
\* whose tw_modified is the task's modification time and whose
\* reminder_modified is the modification date of the reminder just created;
\* when the agent's create fails or times out, the state file and the
\* reminders stay as they were and the task is stored without reminder_id.
C17_FingerprintsOnCreate ==
    [][(last'.act = "on_add" /\ last'.br = "done") =>
          LET u == last'.uuid
          IN IF last'.o = "ok"
             THEN /\ file'.kind = "doc"
                  /\ tasks'[u].rid # 0
                  /\ file'.mappings[u].uuid = u
                  /\ file'.mappings[u].rid = tasks'[u].rid
                  /\ file'.mappings[u].twm = tasks'[u].mod
                  /\ file'.mappings[u].rm = rems'[tasks'[u].rid].mod
             ELSE /\ file' = file
                  /\ rems' = rems
                  /\ tasks'[u].rid = 0]_vars

\* C18 (remote-call errors are never fatal to a run): a run that has taken
\* the lock leaves main() either by its Finish, which writes last_sync, or by
\* the error of a state file that is not JSON; no answer of the agent, the
\* export's included, ends it in another way.
C18_RemoteErrorsNotFatal ==
    [][\A p \in Procs :
          (run[p].pc # "idle" /\ run'[p].pc = "idle") =>
             \/ /\ last'.act = "finish"
                /\ file'.kind = "doc"
                /\ file'.last_sync = Now
             \/ /\ last'.act = "load"
                /\ file.kind = "malformed"]_vars

\* The reminders a pending-only export lists: those that exist and are not
\* completed.
PendingIds == {r \in RIDs : rems[r].st = "live" /\ ~rems[r].done}

\* C19 (completion is not deletion): in a run over a pending-only export
\* that listed the pending reminders (one at least) and that nobody has
\* edited since, a Sweep step on a mapping whose reminder still exists and is
\* completed neither removes the mapping nor marks its task deleted.
C19_CompletionNotDeletion ==
    [][\A p \in Procs :
          (/\ SweepStep(p)
           /\ prior.known
           /\ run[p].snap # << >>
           /\ current_reminder_ids(run[p].snap) = PendingIds
           /\ rems[Head(run[p].todo).rid].st = "live"
           /\ rems[Head(run[p].todo).rid].done) =>
             LET m == Head(run[p].todo)
             IN /\ run'[p].mem.mappings[m.uuid] = run[p].mem.mappings[m.uuid]
                /\ file' = file
                /\ tasks'[m.uuid].st = "deleted" => tasks[m.uuid].st = "deleted"]_vars

\* The tasks linked to reminder r that are not deleted.
LinkedTasks(r) ==
    {u \in UUIDs : tasks[u].st \in {"pending", "completed"} /\ tasks[u].rid = r}

\* C20 (no duplicate local records): for every reminder identifier there is
\* at most one task, not deleted, that carries it.
C20_NoDuplicateTasks ==
    \A r \in RIDs : Cardinality(LinkedTasks(r)) <= 1

\* The fields of a task the reconciliation keeps in step with its reminder.
SyncedFields(task) ==
    [title |-> task.title, proj |-> task.proj, prio |-> task.prio,
     due |-> task.due, st |-> task.st]

\* The reminder holds what the hooks' payloads carry of the task.
Propagated(task, rem) ==
    /\ rem.title = task.title
    /\ rem.prio = map_priority_to_reminder(task.prio)
    /\ rem.due = AgentParseDue(task.due)
    /\ rem.done = (task.st = "completed")

\* C21 (propagation echo does not revert local edits): where the reminders
\* change by the hooks' calls only, a Sync step on a reminder as it now is,
\* whose mapping an earlier run has stamped and whose modification date has
\* moved past that stamp since (by the update a local modify sent), leaves
\* the task's title, project, priority, due date and status as the user's
\* modify left them; the task is the only one that carries the reminder's
\* id, and the reminder holds the task's title, priority, due date and
\* completion.
C21_EchoKeepsLocalEdits ==
    [][\A p \in Procs :
          (/\ SyncStep(p)
           /\ CurrentMapping(p) # NoMap
           /\ TaskExists(tasks[CurrentMapping(p).uuid])
           /\ Current(p) = ExportRecord(rems, Current(p).identifier)
           /\ LinkedTasks(Current(p).identifier) = {CurrentMapping(p).uuid}
           /\ Propagated(tasks[CurrentMapping(p).uuid], rems[Current(p).identifier])
           /\ CurrentMapping(p).rm # EmptyStamp
           /\ ~StrLeq(Current(p).modificationDate, CurrentMapping(p).rm)) =>
             SyncedFields(tasks'[CurrentMapping(p).uuid])
                = SyncedFields(tasks[CurrentMapping(p).uuid])]_vars

====
